---- MODULE Spec2Model ----
(***************************************************************************)
(* Model of js-examples/main.js: a three step LangChain chain              *)
(*     prompt (ChatPromptTemplate) -> llm (ChatGroq) -> parser             *)
(*     (JsonOutputParser)                                                  *)
(* invoked by parseProduct.  Text is modelled as a sequence of one         *)
(* character strings, JSON values as tagged records.  The behaviour of     *)
(* the objects main.js constructs is the behaviour of the library classes  *)
(* it instantiates (f-string templates, AsyncCaller/p-retry, JSON.parse    *)
(* behind parseJsonMarkdown).                                              *)
(***************************************************************************)
EXTENDS Integers, Sequences, FiniteSets, TLC

(***************************************************************************)
(* Bounds of the model.                                                    *)
(***************************************************************************)
NumCalls == 2
MaxInputLen == 2
MaxFeatures == 1

(***************************************************************************)
(* Text helpers (String.prototype.trim / indexOf / startsWith / substring) *)
(***************************************************************************)
Text(n) == UNION {[1..k -> {"a", "{", "}"}] : k \in 0..n}

IsWs(c) == c \in {" ", "\n", "\t", "\r"}

Drop(s, n) == IF n >= Len(s) THEN <<>> ELSE SubSeq(s, n + 1, Len(s))

Take(s, n) == IF n >= Len(s) THEN s ELSE SubSeq(s, 1, n)

RECURSIVE TrimStart(_)
TrimStart(s) == IF s # <<>> /\ IsWs(s[1]) THEN TrimStart(Tail(s)) ELSE s

RECURSIVE TrimEnd(_)
TrimEnd(s) ==
  IF s # <<>> /\ IsWs(s[Len(s)]) THEN TrimEnd(SubSeq(s, 1, Len(s) - 1)) ELSE s

Trim(s) == TrimEnd(TrimStart(s))

StartsWith(s, pat) == Len(pat) <= Len(s) /\ SubSeq(s, 1, Len(pat)) = pat

\* 0-based index of the first occurrence of pat in s, -1 when there is none
IndexOf(s, pat) ==
  LET hits == {i \in 0..(Len(s) - Len(pat)) : SubSeq(s, i + 1, i + Len(pat)) = pat}
  IN  IF hits = {} THEN -1 ELSE CHOOSE i \in hits : \A j \in hits : i <= j

(***************************************************************************)
(* JSON values.                                                            *)
(***************************************************************************)
Undefined == [t |-> "undefined", v |-> <<>>]
Null == [t |-> "null", v |-> <<>>]
Bool(b) == [t |-> "boolean", v |-> b]
Num(n) == [t |-> "number", v |-> n]
Str(s) == [t |-> "string", v |-> s]
Arr(xs) == [t |-> "array", v |-> xs]
Obj(ms) == [t |-> "object", v |-> ms]
Member(k, x) == [k |-> k, val |-> x]

HasKey(o, k) == o.t = "object" /\ \E i \in 1..Len(o.v) : o.v[i].k = k

Get(o, k) ==
  IF HasKey(o, k)
  THEN o.v[CHOOSE i \in 1..Len(o.v) : o.v[i].k = k].val
  ELSE Undefined

Keys(o) == IF o.t = "object" THEN {o.v[i].k : i \in 1..Len(o.v)} ELSE {}

\* obj[k] = x: an existing key keeps its position, a new key is appended
SetMember(ms, k, x) ==
  IF \E i \in 1..Len(ms) : ms[i].k = k
  THEN [i \in 1..Len(ms) |-> IF ms[i].k = k THEN Member(k, x) ELSE ms[i]]
  ELSE Append(ms, Member(k, x))

(***************************************************************************)
(* JSON.stringify without indentation, for the values above.               *)
(***************************************************************************)
RECURSIVE Concat(_)
Concat(ss) == IF ss = <<>> THEN <<>> ELSE Head(ss) \o Concat(Tail(ss))

DigitChar(d) ==
  CASE d = 0 -> "0" [] d = 1 -> "1" [] d = 2 -> "2" [] d = 3 -> "3"
    [] d = 4 -> "4" [] d = 5 -> "5" [] d = 6 -> "6" [] d = 7 -> "7"
    [] d = 8 -> "8" [] d = 9 -> "9"

RECURSIVE NatToText(_)
NatToText(n) ==
  IF n < 10 THEN <<DigitChar(n)>> ELSE Append(NatToText(n \div 10), DigitChar(n % 10))

NumberToText(n) == IF n < 0 THEN <<"-">> \o NatToText(0 - n) ELSE NatToText(n)

QuoteChar(c) ==
  CASE c = "\"" -> <<"\\", "\"">>
    [] c = "\\" -> <<"\\", "\\">>
    [] c = "\n" -> <<"\\", "n">>
    [] c = "\t" -> <<"\\", "t">>
    [] c = "\r" -> <<"\\", "r">>
    [] OTHER -> <<c>>

Quote(s) == <<"\"">> \o Concat([i \in 1..Len(s) |-> QuoteChar(s[i])]) \o <<"\"">>

RECURSIVE Join(_, _)
Join(ss, sep) ==
  IF ss = <<>> THEN <<>>
  ELSE IF Len(ss) = 1 THEN ss[1]
  ELSE ss[1] \o sep \o Join(Tail(ss), sep)

\* the serialization of x with indentation unit gap, at current indentation cur
RECURSIVE Stringify(_, _, _)
Stringify(x, gap, cur) ==
  LET inner == cur \o gap
      open == IF gap = <<>> THEN <<>> ELSE <<"\n">> \o inner
      sep == IF gap = <<>> THEN <<",">> ELSE <<",", "\n">> \o inner
      close == IF gap = <<>> THEN <<>> ELSE <<"\n">> \o cur
      colon == IF gap = <<>> THEN <<":">> ELSE <<":", " ">>
  IN  CASE x.t = "null" -> <<"n", "u", "l", "l">>
        [] x.t = "boolean" ->
             IF x.v THEN <<"t", "r", "u", "e">> ELSE <<"f", "a", "l", "s", "e">>
        [] x.t = "number" -> NumberToText(x.v)
        [] x.t = "string" -> Quote(x.v)
        [] x.t = "array" ->
             IF x.v = <<>> THEN <<"[", "]">>
             ELSE <<"[">> \o open
                  \o Join([i \in 1..Len(x.v) |-> Stringify(x.v[i], gap, inner)], sep)
                  \o close \o <<"]">>
        [] x.t = "object" ->
             IF x.v = <<>> THEN <<"{", "}">>
             ELSE <<"{">> \o open
                  \o Join([i \in 1..Len(x.v) |->
                             Quote(x.v[i].k) \o colon
                             \o Stringify(x.v[i].val, gap, inner)], sep)
                  \o close \o <<"}">>

\* JSON.stringify(x)
JSONstringify(x) == Stringify(x, <<>>, <<>>)

StringifyCompact(x) == Stringify(x, <<>>, <<>>)

\* JSON.stringify(x, null, 2)
JSONstringify2(x) == Stringify(x, <<" ", " ">>, <<>>)

(***************************************************************************)
(* JSON.parse: a recursive descent parser over the text.  Numbers are the  *)
(* integers; fractions, exponents and the \b, \u escapes are outside the   *)
(* alphabet of the model.  A result is [ok, val, pos]: pos is the index of *)
(* the first character not consumed.                                       *)
(***************************************************************************)
Threw == [ok |-> FALSE, val |-> Undefined, pos |-> 0]
Parsed(x, p) == [ok |-> TRUE, val |-> x, pos |-> p]

IsDigit(c) == c \in {"0", "1", "2", "3", "4", "5", "6", "7", "8", "9"}

DigitVal(c) == CHOOSE d \in 0..9 : DigitChar(d) = c

RECURSIVE SkipWs(_, _)
SkipWs(s, i) == IF i <= Len(s) /\ IsWs(s[i]) THEN SkipWs(s, i + 1) ELSE i

RECURSIVE ParseDigits(_, _, _)
ParseDigits(s, i, acc) ==
  IF i <= Len(s) /\ IsDigit(s[i])
  THEN ParseDigits(s, i + 1, 10 * acc + DigitVal(s[i]))
  ELSE [val |-> acc, pos |-> i]

ParseNumber(s, i) ==
  LET neg == s[i] = "-"
      j == IF neg THEN i + 1 ELSE i
  IN  IF j > Len(s) \/ ~IsDigit(s[j]) THEN Threw
      ELSE LET d == IF s[j] = "0" THEN [val |-> 0, pos |-> j + 1]
                    ELSE ParseDigits(s, j, 0)
           IN  Parsed(Num(IF neg THEN 0 - d.val ELSE d.val), d.pos)

RECURSIVE ParseString(_, _, _)
ParseString(s, i, acc) ==
  IF i > Len(s) THEN Threw
  ELSE IF s[i] = "\"" THEN Parsed(Str(acc), i + 1)
  ELSE IF s[i] = "\\" THEN
    IF i + 1 > Len(s) THEN Threw
    ELSE IF s[i + 1] \in {"\"", "\\", "/"} THEN ParseString(s, i + 2, Append(acc, s[i + 1]))
    ELSE IF s[i + 1] = "n" THEN ParseString(s, i + 2, Append(acc, "\n"))
    ELSE IF s[i + 1] = "t" THEN ParseString(s, i + 2, Append(acc, "\t"))
    ELSE IF s[i + 1] = "r" THEN ParseString(s, i + 2, Append(acc, "\r"))
    ELSE Threw
  ELSE IF s[i] \in {"\n", "\t", "\r"} THEN Threw
  ELSE ParseString(s, i + 1, Append(acc, s[i]))

ParseLiteral(s, i) ==
  IF StartsWith(Drop(s, i - 1), <<"n", "u", "l", "l">>) THEN Parsed(Null, i + 4)
  ELSE IF StartsWith(Drop(s, i - 1), <<"t", "r", "u", "e">>) THEN Parsed(Bool(TRUE), i + 4)
  ELSE IF StartsWith(Drop(s, i - 1), <<"f", "a", "l", "s", "e">>) THEN Parsed(Bool(FALSE), i + 5)
  ELSE Threw

RECURSIVE ParseValue(_, _)
RECURSIVE ParseElements(_, _, _)
RECURSIVE ParseMembers(_, _, _)

ParseValue(s, i) ==
  LET j == SkipWs(s, i)
  IN  IF j > Len(s) THEN Threw
      ELSE IF s[j] = "{" THEN
        LET k == SkipWs(s, j + 1)
        IN  IF k <= Len(s) /\ s[k] = "}" THEN Parsed(Obj(<<>>), k + 1)
            ELSE ParseMembers(s, k, <<>>)
      ELSE IF s[j] = "[" THEN
        LET k == SkipWs(s, j + 1)
        IN  IF k <= Len(s) /\ s[k] = "]" THEN Parsed(Arr(<<>>), k + 1)
            ELSE ParseElements(s, k, <<>>)
      ELSE IF s[j] = "\"" THEN ParseString(s, j + 1, <<>>)
      ELSE IF s[j] = "-" \/ IsDigit(s[j]) THEN ParseNumber(s, j)
      ELSE ParseLiteral(s, j)

\* the elements of an array, from the first character of an element
ParseElements(s, i, acc) ==
  LET e == ParseValue(s, i)
  IN  IF ~e.ok THEN Threw
      ELSE LET k == SkipWs(s, e.pos)
           IN  IF k > Len(s) THEN Threw
               ELSE IF s[k] = "," THEN ParseElements(s, k + 1, Append(acc, e.val))
               ELSE IF s[k] = "]" THEN Parsed(Arr(Append(acc, e.val)), k + 1)
               ELSE Threw

\* the members of an object, from the first character of a key
ParseMembers(s, i, acc) ==
  LET j == SkipWs(s, i)
  IN  IF j > Len(s) \/ s[j] # "\"" THEN Threw
      ELSE LET key == ParseString(s, j + 1, <<>>)
           IN  IF ~key.ok THEN Threw
               ELSE LET c == SkipWs(s, key.pos)
                    IN  IF c > Len(s) \/ s[c] # ":" THEN Threw
                        ELSE LET e == ParseValue(s, c + 1)
                             IN  IF ~e.ok THEN Threw
                                 ELSE LET k == SkipWs(s, e.pos)
                                          ms == SetMember(acc, key.val.v, e.val)
                                      IN  IF k > Len(s) THEN Threw
                                          ELSE IF s[k] = "," THEN ParseMembers(s, k + 1, ms)
                                          ELSE IF s[k] = "}" THEN Parsed(Obj(ms), k + 1)
                                          ELSE Threw

\* JSON.parse(text): [ok |-> TRUE, val |-> value], or ok = FALSE for a SyntaxError
JSONparse(s) ==
  LET r == ParseValue(s, 1)
  IN  IF r.ok /\ SkipWs(s, r.pos) = Len(s) + 1
      THEN [ok |-> TRUE, val |-> r.val]
      ELSE [ok |-> FALSE, val |-> Undefined]

(***************************************************************************)
(* parseJsonMarkdown(text, JSON.parse), which JsonOutputParser.parse calls *)
(***************************************************************************)
\* the character U+0060, which a TLA+ string cannot hold, as an atom of its own
Backquote == "backquote"

Fence == <<Backquote, Backquote, Backquote>>
JsonTag == <<"j", "s", "o", "n">>

StripFenceTag(s) ==
  IF StartsWith(s, JsonTag \o <<"\n">>) THEN Drop(s, 5)
  ELSE IF StartsWith(s, JsonTag) THEN Drop(s, 4)
  ELSE IF StartsWith(s, <<"\n">>) THEN Drop(s, 1)
  ELSE s

\* the text parseJsonMarkdown hands to JSON.parse
JsonContent(text) ==
  LET s == Trim(text)
      firstFenceIndex == IndexOf(s, Fence)
  IN  IF firstFenceIndex = -1 THEN s
      ELSE LET contentAfterFence == StripFenceTag(Drop(s, firstFenceIndex + 3))
               closingFenceIndex == IndexOf(contentAfterFence, Fence)
               finalContent == IF closingFenceIndex # -1
                               THEN Take(contentAfterFence, closingFenceIndex)
                               ELSE contentAfterFence
           IN  Trim(finalContent)

parseJsonMarkdown(text) == JSONparse(JsonContent(text))

\* what the message of the SyntaxError of JSON.parse(content) quotes of its
\* source: nothing (a position only, or "end of input") or the source text,
\* depending on the runtime and on where the parse stopped
SyntaxErrorQuotes(content) == {<<>>, content}

(***************************************************************************)
(* The prompt: ChatPromptTemplate.fromMessages with f-string templates.    *)
(* A template is a sequence of characters in which a run of characters     *)
(* without braces may stand as one element.                                *)
(***************************************************************************)
SystemTemplate ==
  <<"Extract product details into JSON with this structure:\n",
    "{", "{",
    "\n  \"name\": \"product name here\",\n  \"price\": number_here_without_currency_symbol,\n  \"features\": [\"feature1\", \"feature2\", \"feature3\"]\n",
    "}", "}">>

UserTemplate == <<"{", "i", "n", "p", "u", "t", "}">>

Literal(text) == [type |-> "literal", text |-> text]
Variable(name) == [type |-> "variable", text |-> name]

\* index of the first element of chars at or after start that is in brackets, 0 if none
NextBracket(chars, brackets, start) ==
  LET hits == {i \in start..Len(chars) : chars[i] \in brackets}
  IN  IF hits = {} THEN 0 ELSE CHOOSE i \in hits : \A j \in hits : i <= j

\* parseFString: [ok, nodes]; ok = FALSE for "Unclosed '{'" and "Single '}'"
RECURSIVE parseFString(_, _, _)
parseFString(chars, i, nodes) ==
  IF i > Len(chars) THEN [ok |-> TRUE, nodes |-> nodes]
  ELSE IF chars[i] = "{" /\ i + 1 <= Len(chars) /\ chars[i + 1] = "{"
    THEN parseFString(chars, i + 2, Append(nodes, Literal(<<"{">>)))
  ELSE IF chars[i] = "}" /\ i + 1 <= Len(chars) /\ chars[i + 1] = "}"
    THEN parseFString(chars, i + 2, Append(nodes, Literal(<<"}">>)))
  ELSE IF chars[i] = "{"
    THEN LET j == NextBracket(chars, {"}"}, i)
         IN  IF j = 0 THEN [ok |-> FALSE, nodes |-> <<>>]
             ELSE parseFString(chars, j + 1,
                               Append(nodes, Variable(SubSeq(chars, i + 1, j - 1))))
  ELSE IF chars[i] = "}" THEN [ok |-> FALSE, nodes |-> <<>>]
  ELSE LET next == NextBracket(chars, {"{", "}"}, i)
           last == IF next = 0 THEN Len(chars) ELSE next - 1
       IN  parseFString(chars, last + 1, Append(nodes, Literal(SubSeq(chars, i, last))))

\* interpolateFString: the literals as they are, each variable replaced by its value
interpolateFString(nodes, values) ==
  Concat([i \in 1..Len(nodes) |->
            IF nodes[i].type = "variable" THEN values[nodes[i].text]
            ELSE nodes[i].text])

\* a plausible slip: the value is pasted into the template before it is parsed
RenderInlined(template, values) ==
  LET pasted == IF template = UserTemplate THEN values[<<"i", "n", "p", "u", "t">>]
                ELSE template
      parsed == parseFString(pasted, 1, <<>>)
  IN  IF parsed.ok
      THEN Concat([i \in 1..Len(parsed.nodes) |->
                     IF parsed.nodes[i].type = "literal" THEN parsed.nodes[i].text
                     ELSE <<>>])
      ELSE <<>>

renderTemplate(template, values) ==
  interpolateFString(parseFString(template, 1, <<>>).nodes, values)

Message(role, content) == [role |-> role, content |-> content]

\* the prompt object of main.js: the (role, template) pairs in order
Prompt == <<Message("system", SystemTemplate), Message("user", UserTemplate)>>

\* prompt.invoke({input: description})
formatMessages(p, description) ==
  LET values == [n \in {<<"i", "n", "p", "u", "t">>} |-> description]
  IN  [i \in 1..Len(p) |-> Message(p[i].role, renderTemplate(p[i].content, values))]

(***************************************************************************)
(* The module level objects of main.js.                                    *)
(***************************************************************************)
maxRetries == 2

Llm == [model |-> "llama-3.3-70b-versatile", temperature |-> "0.7", maxRetries |-> maxRetries]

\* the schema handed to the parser as pydanticObject
Parser ==
  [pydanticObject |->
     [name |-> "string", price |-> "number", features |-> "array of string"]]

\* prompt.pipe(llm).pipe(parser): the steps of the RunnableSequence, in order
Chain == <<"prompt", "llm", "parser">>

NoGlobals == [llm |-> <<>>, parser |-> <<>>, prompt |-> <<>>, chain |-> <<>>]

Globals == [llm |-> <<Llm>>, parser |-> <<Parser>>, prompt |-> Prompt, chain |-> Chain]

(***************************************************************************)
(* What the remote model may be given and may answer.                      *)
(***************************************************************************)
Calls == 1..NumCalls

Credentials == {"missing", "invalid", "valid"}

InputTexts == Text(MaxInputLen)

Tuples(S, n) == UNION {[1..k -> S] : k \in 0..n}

ProductNames ==
  {<<"a">>, <<"\"", "\\">>, Fence \o <<"1">> \o Fence}

Prices == {0, -7, 14499}

FeatureLists == Tuples({<<"x">>, <<"\n", "y">>}, MaxFeatures)

Product(name, price, features) ==
  Obj(<<Member(<<"n", "a", "m", "e">>, Str(name)),
        Member(<<"p", "r", "i", "c", "e">>, Num(price)),
        Member(<<"f", "e", "a", "t", "u", "r", "e", "s">>,
               Arr([i \in 1..Len(features) |-> Str(features[i])]))>>)

Products ==
  {Product(n, p, f) : n \in ProductNames, p \in Prices, f \in FeatureLists}

Prose == <<"\n", "H", "o", "p", "e", " ", "i", "t", " ", "h", "e", "l", "p", "s", "!">>

\* a completion that wraps the JSON text in a markdown code fence, prose after it
Fenced(json) == Fence \o JsonTag \o <<"\n">> \o json \o <<"\n">> \o Fence \o Prose

Without(o, k) == Obj(SelectSeq(o.v, LAMBDA m : m.k # k))

With(o, k, x) == Obj(SetMember(o.v, k, x))

Sample == Product(<<"a">>, 14499, <<<<"x">>>>)

\* completions that are not the serialization of a product
OddCompletions ==
  LET json == JSONstringify(Sample)
  IN  { JSONstringify(Without(Sample, <<"p", "r", "i", "c", "e">>)),
        JSONstringify(Without(Sample, <<"n", "a", "m", "e">>)),
        JSONstringify(With(Sample, <<"p", "r", "i", "c", "e">>,
                           Str(<<"1", "4", "4", "9", "9">>))),
        JSONstringify(With(Sample, <<"f", "e", "a", "t", "u", "r", "e", "s">>, Null)),
        JSONstringify(With(Sample, <<"s", "k", "u">>, Num(1))),
        JSONstringify(Arr(<<Sample>>)),
        SubSeq(json, 1, Len(json) - 1),
        Prose \o json,
        Tail(Prose),
        <<>> }

Completions ==
  {JSONstringify(o) : o \in Products} \cup {Fenced(JSONstringify(o)) : o \in Products}
  \cup OddCompletions

\* the smaller pools the concurrent specification draws from
FewInputs == {<<>>, <<"{">>}

FewCompletions ==
  { JSONstringify(Sample),
    JSONstringify(Without(Sample, <<"p", "r", "i", "c", "e">>)),
    Tail(Prose) }

(***************************************************************************)
(* State.                                                                  *)
(***************************************************************************)
VARIABLES
  credential,  \* GROQ_API_KEY in the environment once dotenv.config() has run
  module,      \* "loading", "ready", or "crashed" when the top level threw
  globals,     \* the const bindings llm, parser, prompt, chain
  pc,          \* per call: "idle", "step", "waiting", "resolved", "returned", "threw"
  step,        \* per call: index into the chain of the step to invoke next
  input,       \* per call: the description passed to parseProduct
  messages,    \* per call: the output of the prompt step
  attempts,    \* per call: requests sent to the remote endpoint
  log,         \* per call: the responses received, oldest first
  completion,  \* per call: the text the llm step returned
  result,      \* per call: the value chain.invoke resolved with
  error,       \* per call: the error chain.invoke rejected with
  ran,         \* per call: the steps of the chain invoked so far
  stdout,      \* per call: the texts the call wrote with console.log
  detail       \* per call: the source text the message of the error quotes

vars ==
  <<credential, module, globals, pc, step, input, messages, attempts, log,
    completion, result, error, ran, stdout, detail>>

callVars ==
  <<pc, step, input, messages, attempts, log, completion, result, error, ran,
    stdout, detail>>

Init ==
  /\ credential \in Credentials
  /\ module = "loading"
  /\ globals = NoGlobals
  /\ pc = [p \in Calls |-> "idle"]
  /\ step = [p \in Calls |-> 0]
  /\ input = [p \in Calls |-> <<>>]
  /\ messages = [p \in Calls |-> <<>>]
  /\ attempts = [p \in Calls |-> 0]
  /\ log = [p \in Calls |-> <<>>]
  /\ completion = [p \in Calls |-> Undefined]
  /\ result = [p \in Calls |-> Undefined]
  /\ error = [p \in Calls |-> "none"]
  /\ ran = [p \in Calls |-> <<>>]
  /\ stdout = [p \in Calls |-> <<>>]
  /\ detail = [p \in Calls |-> <<>>]

(***************************************************************************)
(* Top level of the module: new ChatGroq(...) throws when no API key is    *)
(* found; otherwise the four objects are bound.                            *)
(***************************************************************************)
ApiKeyFound(key) == key # "missing"

LoadModule ==
  /\ module = "loading"
  /\ IF ApiKeyFound(credential)
     THEN module' = "ready" /\ globals' = Globals
     ELSE module' = "crashed" /\ globals' = globals
  /\ UNCHANGED <<credential, callVars>>

(***************************************************************************)
(* parseProduct(description): chain.invoke({input: description})           *)
(***************************************************************************)
Invoke(p, description) ==
  /\ module = "ready"
  /\ pc[p] = "idle"
  /\ input' = [input EXCEPT ![p] = description]
  /\ step' = [step EXCEPT ![p] = 1]
  /\ pc' = [pc EXCEPT ![p] = "step"]
  /\ UNCHANGED <<detail, stdout, credential, module, globals, messages, attempts, log,
                 completion, result, error, ran>>

AtStep(p, name) ==
  /\ pc[p] = "step"
  /\ step[p] \in 1..Len(globals.chain)
  /\ globals.chain[step[p]] = name

PromptInvoke(p) ==
  /\ AtStep(p, "prompt")
  /\ messages' = [messages EXCEPT ![p] = formatMessages(globals.prompt, input[p])]
  /\ ran' = [ran EXCEPT ![p] = Append(@, "prompt")]
  /\ step' = [step EXCEPT ![p] = @ + 1]
  /\ UNCHANGED <<detail, stdout, credential, module, globals, pc, input, attempts, log,
                 completion, result, error>>

(***************************************************************************)
(* The llm step: AsyncCaller.call runs the request under p-retry with      *)
(* retries = maxRetries; a failed attempt whose status is one of the       *)
(* no-retry statuses (401 among them) is rethrown at once.                 *)
(***************************************************************************)
Transient == [kind |-> "transient", text |-> <<>>]
Unauthorized == [kind |-> "unauthorized", text |-> <<>>]
Completed(text) == [kind |-> "completion", text |-> text]

RECURSIVE Sum(_, _)
Sum(f, S) ==
  IF S = {} THEN 0 ELSE LET x == CHOOSE x \in S : TRUE IN f[x] + Sum(f, S \ {x})

RetriesLeftOffByOne(p) == globals.llm[1].maxRetries - attempts[p]

RetriesLeftShared(p) == globals.llm[1].maxRetries - (Sum(attempts, Calls) - 1)

\* retries p-retry still grants the call once its latest attempt has failed
RetriesLeft(p) == globals.llm[1].maxRetries - (attempts[p] - 1)

RetryCoversAll(name) == TRUE

\* maxRetries is an option of the llm: its retry loop wraps that step only
RetryCovers(name) == name = "llm"

RetryAnyStatus(response) == TRUE

RetryNoStatus(response) == FALSE

\* defaultFailedAttemptHandler: which failures are left to p-retry
Retryable(response) == response.kind = "transient"

SendRequest(p) ==
  /\ AtStep(p, "llm")
  /\ attempts' = [attempts EXCEPT ![p] = @ + 1]
  /\ ran' = [ran EXCEPT ![p] = IF attempts[p] = 0 THEN Append(@, "llm") ELSE @]
  /\ pc' = [pc EXCEPT ![p] = "waiting"]
  /\ UNCHANGED <<detail, stdout, credential, module, globals, step, input, messages, log,
                 completion, result, error>>

RespondCompletion(p, text) ==
  /\ pc[p] = "waiting"
  /\ credential = "valid"
  /\ log' = [log EXCEPT ![p] = Append(@, Completed(text))]
  /\ completion' = [completion EXCEPT ![p] = Str(text)]
  /\ step' = [step EXCEPT ![p] = @ + 1]
  /\ pc' = [pc EXCEPT ![p] = "step"]
  /\ UNCHANGED <<detail, stdout, credential, module, globals, input, messages, attempts,
                 result, error, ran>>

\* the attempt failed with response; retried while p-retry has retries left
Fails(p, response) ==
  /\ pc[p] = "waiting"
  /\ log' = [log EXCEPT ![p] = Append(@, response)]
  /\ IF RetryCovers("llm") /\ Retryable(response) /\ RetriesLeft(p) > 0
     THEN /\ pc' = [pc EXCEPT ![p] = "step"]
          /\ error' = error
     ELSE /\ pc' = [pc EXCEPT ![p] = "threw"]
          /\ error' = [error EXCEPT ![p] =
                         IF response.kind = "unauthorized"
                         THEN "AuthenticationError" ELSE "APIConnectionError"]
  /\ UNCHANGED <<detail, stdout, credential, module, globals, step, input, messages, attempts,
                 completion, result, ran>>

RespondTransient(p) == Fails(p, Transient)

RespondUnauthorized(p) ==
  /\ credential = "invalid"
  /\ Fails(p, Unauthorized)

(***************************************************************************)
(* The parser step: JsonOutputParser.parse(text) is                        *)
(* parseJsonMarkdown(text, JSON.parse); pydanticObject is not consulted.   *)
(***************************************************************************)
ParseSwallowing(text) == [ok |-> TRUE, val |-> parseJsonMarkdown(text).val]

ParserParse(text) == parseJsonMarkdown(text)

ParserInvoke(p) ==
  /\ AtStep(p, "parser")
  /\ ran' = [ran EXCEPT ![p] = Append(@, "parser")]
  /\ LET r == ParserParse(completion[p].v)
     IN  IF r.ok
         THEN /\ result' = [result EXCEPT ![p] = r.val]
              /\ pc' = [pc EXCEPT ![p] = "resolved"]
              /\ UNCHANGED <<error, detail, step>>
         ELSE IF RetryCovers("parser") /\ RetriesLeft(p) > 0
         THEN /\ step' = [step EXCEPT ![p] = @ - 1]
              /\ UNCHANGED <<pc, result, error, detail>>
         ELSE /\ error' = [error EXCEPT ![p] = "SyntaxError"]
              /\ \E quoted \in SyntaxErrorQuotes(JsonContent(completion[p].v)) :
                   detail' = [detail EXCEPT ![p] = quoted]
              /\ pc' = [pc EXCEPT ![p] = "threw"]
              /\ UNCHANGED <<result, step>>
  /\ UNCHANGED <<stdout, credential, module, globals, input, messages, attempts,
                 log, completion>>

\* parseProduct after the await: console.log and return result
Return(p) ==
  /\ pc[p] = "resolved"
  /\ stdout' = [stdout EXCEPT ![p] = Append(@, JSONstringify2(result[p]))]
  /\ pc' = [pc EXCEPT ![p] = "returned"]
  /\ UNCHANGED <<detail, credential, module, globals, step, input, messages, attempts,
                 log, completion, result, error, ran>>

CallStep(p, inputs, completions) ==
  \/ \E description \in inputs : Invoke(p, description)
  \/ PromptInvoke(p)
  \/ SendRequest(p)
  \/ \E text \in completions : RespondCompletion(p, text)
  \/ RespondTransient(p)
  \/ RespondUnauthorized(p)
  \/ ParserInvoke(p)
  \/ Return(p)

\* one invocation of parseProduct, as main.js makes it
Next == LoadModule \/ CallStep(1, InputTexts, Completions)

Spec == Init /\ [][Next]_vars

\* several invocations in flight at once
NextConc == LoadModule \/ \E p \in Calls : CallStep(p, FewInputs, FewCompletions)

SpecConc == Init /\ [][NextConc]_vars

(***************************************************************************)
(* Vocabulary of the properties.                                           *)
(***************************************************************************)
NameKey == <<"n", "a", "m", "e">>
PriceKey == <<"p", "r", "i", "c", "e">>
FeaturesKey == <<"f", "e", "a", "t", "u", "r", "e", "s">>

\* the error taxonomy of the design, for the errors the code raises
Taxonomy(e) ==
  CASE e = "AuthenticationError" -> "ConfigError"
    [] e = "APIConnectionError" -> "ExhaustedRetriesError"
    [] e = "SyntaxError" -> "ParseError"
    [] OTHER -> "none"

AllTransient(l) == \A i \in 1..Len(l) : l[i].kind = "transient"

Succeeded(p) == pc[p] \in {"resolved", "returned"}

ParserRan(p) == \E i \in 1..Len(ran[p]) : ran[p][i] = "parser"

IsPrefix(s, t) == Len(s) <= Len(t) /\ s = SubSeq(t, 1, Len(s))

\* x has the three declared fields with the declared types
Conforms(x) ==
  /\ x.t = "object"
  /\ Get(x, NameKey).t = "string"
  /\ Get(x, PriceKey).t = "number"
  /\ Get(x, FeaturesKey).t = "array"
  /\ \A i \in 1..Len(Get(x, FeaturesKey).v) : Get(x, FeaturesKey).v[i].t = "string"

\* C1: when every attempt fails with a transient error the client makes
\* exactly maxRetries + 1 attempts, never more, and the call then fails with
\* the exhausted-retries failure; it fails that way in no other case.
C1_ExhaustedAfterAllAttempts ==
  \A p \in Calls :
    /\ attempts[p] <= maxRetries + 1
    /\ (Len(log[p]) = maxRetries + 1 /\ AllTransient(log[p]))
         => /\ pc[p] = "threw"
            /\ Taxonomy(error[p]) = "ExhaustedRetriesError"
            /\ attempts[p] = maxRetries + 1
    /\ Taxonomy(error[p]) = "ExhaustedRetriesError"
         => /\ attempts[p] = maxRetries + 1
            /\ Len(log[p]) = maxRetries + 1
            /\ AllTransient(log[p])

C1_Witness ==
  \E p \in Calls :
    /\ pc[p] = "threw"
    /\ error[p] = "APIConnectionError"
    /\ attempts[p] = 3
    /\ log[p] = <<Transient, Transient, Transient>>

\* C2: two transient failures are not surfaced: the call has not failed
\* after them, and when the third attempt answers, the completion it
\* returned is what reaches the parser, whose value parseProduct returns.
C2_SucceedsOnThirdAttempt ==
  \A p \in Calls :
    /\ (Len(log[p]) <= 2 /\ AllTransient(log[p])) => pc[p] # "threw"
    /\ (/\ Len(log[p]) = 3
        /\ AllTransient(SubSeq(log[p], 1, 2))
        /\ log[p][3].kind = "completion")
         => /\ completion[p] = Str(log[p][3].text)
            /\ error[p] \in {"none", "SyntaxError"}
            /\ Succeeded(p) => result[p] = parseJsonMarkdown(log[p][3].text).val
            /\ (ParserRan(p) /\ parseJsonMarkdown(log[p][3].text).ok) => Succeeded(p)

C2_Witness ==
  \E p \in Calls :
    /\ pc[p] = "returned"
    /\ attempts[p] = 3
    /\ log[p] = <<Transient, Transient, Completed(JSONstringify(Sample))>>
    /\ result[p] = Sample

\* C3: with no credential no request is ever sent (the module fails while
\* loading); a request refused for its credential fails the call at once
\* with the configuration failure and is never followed by another attempt.
C3_ConfigErrorNotRetried ==
  /\ credential = "missing" =>
       /\ module # "ready"
       /\ \A p \in Calls : attempts[p] = 0 /\ pc[p] = "idle"
  /\ \A p \in Calls :
       /\ \A i \in 1..Len(log[p]) :
            log[p][i].kind = "unauthorized"
              => /\ i = Len(log[p])
                 /\ attempts[p] = i
                 /\ pc[p] = "threw"
                 /\ Taxonomy(error[p]) = "ConfigError"
       /\ Taxonomy(error[p]) = "ConfigError"
            => /\ credential = "invalid"
               /\ log[p][Len(log[p])].kind = "unauthorized"

C3_Witness ==
  \E p \in Calls :
    /\ credential = "invalid"
    /\ pc[p] = "threw"
    /\ error[p] = "AuthenticationError"
    /\ attempts[p] = 1
    /\ log[p] = <<Unauthorized>>

\* C4: a completion that is well-formed JSON but lacks a required field or
\* has one of the wrong type makes the parser step fail with a parse error,
\* and no object is returned for it.
C4_NonConformingRejected ==
  \A p \in Calls :
    (/\ ParserRan(p)
     /\ JSONparse(completion[p].v).ok
     /\ ~Conforms(JSONparse(completion[p].v).val))
      => /\ pc[p] = "threw"
         /\ Taxonomy(error[p]) = "ParseError"
         /\ result[p] = Undefined

\* C5: every successful run returns an object with exactly the fields
\* name, price and features.
C5_ExactlyThreeFields ==
  \A p \in Calls :
    Succeeded(p) =>
      /\ result[p].t = "object"
      /\ Keys(result[p]) = {NameKey, PriceKey, FeaturesKey}

\* the system instruction, as the model is sent it
SystemInstruction ==
  <<"Extract product details into JSON with this structure:\n",
    "{",
    "\n  \"name\": \"product name here\",\n  \"price\": number_here_without_currency_symbol,\n  \"features\": [\"feature1\", \"feature2\", \"feature3\"]\n",
    "}">>

\* C6: the prompt step yields exactly two messages, system then user; the
\* system message is the fixed instruction and the user message is the
\* input text verbatim, for every input (empty, or with curly braces).
C6_TwoMessagesVerbatim ==
  \A p \in Calls :
    /\ (step[p] >= 2 \/ attempts[p] > 0) => Len(messages[p]) = 2
    /\ messages[p] # <<>> =>
         /\ Len(messages[p]) = 2
         /\ messages[p][1].role = "system"
         /\ messages[p][1].content = SystemInstruction
         /\ messages[p][2].role = "user"
         /\ messages[p][2].content = input[p]

C6_Witness ==
  \E p \in Calls :
    /\ input[p] = <<"{", "}">>
    /\ Len(messages[p]) = 2
    /\ messages[p][2].content = <<"{", "}">>

\* C7: round trip: when the completion is the bare JSON serialization of an
\* object with a string name, a number price and string features, the
\* parser step returns a result with the same three field values.
C7_RoundTrip ==
  \A p \in Calls : \A o \in Products :
    (ParserRan(p) /\ completion[p] = Str(JSONstringify(o)))
      => /\ Succeeded(p)
         /\ Get(result[p], NameKey) = Get(o, NameKey)
         /\ Get(result[p], PriceKey) = Get(o, PriceKey)
         /\ Get(result[p], FeaturesKey) = Get(o, FeaturesKey)

\* C8: a completion that wraps the JSON text of an object in a markdown
\* code fence followed by prose is extracted to the same outcome as the
\* JSON text alone.
C8_FencedSameAsBare ==
  \A p \in Calls : \A o \in Products :
    (ParserRan(p) /\ completion[p] = Str(Fenced(JSONstringify(o))))
      => LET bare == ParserParse(JSONstringify(o))
         IN  /\ Succeeded(p) <=> bare.ok
             /\ Succeeded(p) => result[p] = bare.val

\* C9: the steps run in the order prompt, llm, parser; the parser runs only
\* on a completion the llm step returned and never after the llm step
\* failed; a call ends either with a completely parsed value and no error,
\* or with an error and no value.
C9_LinearSingleOutcome ==
  \A p \in Calls :
    /\ IsPrefix(ran[p], <<"prompt", "llm", "parser">>)
    /\ attempts[p] > 0 => Len(messages[p]) = 2
    /\ ParserRan(p) =>
         /\ completion[p] # Undefined
         /\ log[p][Len(log[p])].kind = "completion"
         /\ error[p] \in {"none", "SyntaxError"}
    /\ error[p] \in {"AuthenticationError", "APIConnectionError"} =>
         /\ ~ParserRan(p)
         /\ completion[p] = Undefined
    /\ Succeeded(p) =>
         /\ ran[p] = <<"prompt", "llm", "parser">>
         /\ error[p] = "none"
         /\ result[p] # Undefined
    /\ pc[p] = "threw" => error[p] # "none" /\ result[p] = Undefined
    /\ ~Succeeded(p) /\ pc[p] # "threw" => error[p] = "none" /\ result[p] = Undefined

C9_Witness ==
  \E p \in Calls :
    /\ pc[p] = "returned"
    /\ ran[p] = <<"prompt", "llm", "parser">>
    /\ result[p] = Sample
    /\ error[p] = "none"

\* what a call that received the responses l ends with, whatever else runs
Alone(l) ==
  LET last == l[Len(l)]
  IN  IF last.kind = "completion"
      THEN LET r == parseJsonMarkdown(last.text)
           IN  IF r.ok THEN [pc |-> "returned", result |-> r.val, error |-> "none"]
               ELSE [pc |-> "threw", result |-> Undefined, error |-> "SyntaxError"]
      ELSE IF last.kind = "unauthorized"
      THEN [pc |-> "threw", result |-> Undefined, error |-> "AuthenticationError"]
      ELSE IF Len(l) = maxRetries + 1
      THEN [pc |-> "threw", result |-> Undefined, error |-> "APIConnectionError"]
      ELSE [pc |-> "pending", result |-> Undefined, error |-> "none"]

\* C10: with several calls in flight, the module level objects stay as
\* they were built, the messages of a call come from its own input, and
\* the outcome of a call is the one its own responses determine.
C10_CallsIndependent ==
  /\ module = "ready" => globals = Globals
  /\ \A p \in Calls :
       /\ messages[p] # <<>> => messages[p][2].content = input[p]
       /\ attempts[p] \in {Len(log[p]), Len(log[p]) + 1}
       /\ pc[p] \in {"returned", "threw"} =>
            [pc |-> pc[p], result |-> result[p], error |-> error[p]] = Alone(log[p])

C10_Witness ==
  /\ pc[1] = "returned"
  /\ result[1] = Sample
  /\ pc[2] = "waiting"
  /\ attempts[2] = 2
  /\ input[1] # input[2]

\* the text console.log writes for Sample
SampleFormatted ==
  <<"{", "\n",
    " ", " ", "\"", "n", "a", "m", "e", "\"", ":", " ", "\"", "a", "\"", ",", "\n",
    " ", " ", "\"", "p", "r", "i", "c", "e", "\"", ":", " ", "1", "4", "4", "9", "9", ",", "\n",
    " ", " ", "\"", "f", "e", "a", "t", "u", "r", "e", "s", "\"", ":", " ", "[", "\n",
    " ", " ", " ", " ", "\"", "x", "\"", "\n",
    " ", " ", "]", "\n",
    "}">>

\* C11: a call that returns has written its result to standard output
\* exactly once, as JSON indented by two spaces that reads back as the value
\* it returns; a call that has not returned has written nothing, and every
\* failure of a step (credential, exhausted retries, parse) ends the call as
\* a failure carrying its error, with nothing written.
C11_StdoutOnlyOnSuccess ==
  /\ (credential = "missing" /\ module # "loading")
       => module = "crashed" /\ \A p \in Calls : stdout[p] = <<>>
  /\ \A p \in Calls :
       /\ pc[p] = "returned" =>
            /\ error[p] = "none"
            /\ Len(stdout[p]) = 1
            /\ JSONparse(stdout[p][1]) = [ok |-> TRUE, val |-> result[p]]
            /\ (result[p].t = "object" /\ result[p].v # <<>>)
                 => SubSeq(stdout[p][1], 1, 4) = <<"{", "\n", " ", " ">>
            /\ result[p] = Sample => stdout[p][1] = SampleFormatted
       /\ pc[p] # "returned" => stdout[p] = <<>>
       /\ pc[p] = "threw" => error[p] # "none" /\ result[p] = Undefined
       /\ (log[p] # <<>> /\ log[p][Len(log[p])].kind = "unauthorized")
            => pc[p] = "threw" /\ Taxonomy(error[p]) = "ConfigError"
       /\ (Len(log[p]) = maxRetries + 1 /\ AllTransient(log[p]))
            => pc[p] = "threw" /\ Taxonomy(error[p]) = "ExhaustedRetriesError"
       /\ (ParserRan(p) /\ ~JSONparse(Trim(completion[p].v)).ok /\ ~Succeeded(p))
            => pc[p] = "threw" /\ Taxonomy(error[p]) = "ParseError"

C11_Witness ==
  \E p \in Calls :
    /\ pc[p] = "returned"
    /\ result[p] = Sample
    /\ stdout[p] = <<SampleFormatted>>

ParseFails(p) == ParserRan(p) /\ ~parseJsonMarkdown(completion[p].v).ok

NothingAfterCompletion(p) ==
  /\ attempts[p] = Len(log[p])
  /\ log[p][Len(log[p])] = Completed(completion[p].v)

\* C12 as stated: a completion with no valid JSON fails the call with a
\* parse error, no further request is sent, and the failure carries the raw
\* completion text.
C12_CarriesRawText ==
  \A p \in Calls :
    ParseFails(p) =>
      /\ pc[p] = "threw"
      /\ Taxonomy(error[p]) = "ParseError"
      /\ NothingAfterCompletion(p)
      /\ detail[p] = completion[p].v

\* C12 as amended: a completion with no valid JSON fails the call with a
\* parse error and no further request is sent, whatever is left of the
\* retry budget; the error quotes at most the text handed to JSON.parse
\* (trimmed, fence removed), which need not be the raw completion text.
C12_ParseFailureNotRetried ==
  \A p \in Calls :
    ParseFails(p) =>
      /\ pc[p] = "threw"
      /\ Taxonomy(error[p]) = "ParseError"
      /\ NothingAfterCompletion(p)
      /\ result[p] = Undefined
      /\ detail[p] \in {<<>>, JsonContent(completion[p].v)}

C12_Witness ==
  \E p \in Calls :
    /\ pc[p] = "threw"
    /\ error[p] = "SyntaxError"
    /\ attempts[p] = 1
    /\ log[p] = <<Completed(Tail(Prose))>>
    /\ detail[p] = Tail(Prose)
====
